---- MODULE Spec2Model ----
(***************************************************************************)
(* fund-watcher: the concurrent fetch/aggregate pipeline of main.go.       *)
(*                                                                         *)
(* GetFundResult starts one goroutine per requested fund, each fetching    *)
(* one quote and sending a FundItem on the unbuffered channel fundChan; a  *)
(* single collector goroutine appends what it receives to items.  The      *)
(* orchestrator waits for the workers, closes the channel, waits for the   *)
(* collector and hands items to NewFundResult, which sorts them by weight  *)
(* and computes the weighted average.                                      *)
(*                                                                         *)
(* float64 values are modelled by integers (weights, parsed percentages)   *)
(* and by exact fractions or NaN/Inf (the quotient of avg).  Strings that  *)
(* are parsed are sequences of one-character strings.                      *)
(***************************************************************************)
EXTENDS Integers, Sequences, FiniteSets, Bags, TLC

\* ----------------------------------------------------------------- bounds

\* Largest number of requests in one run of the concurrent pipeline
\* (len(fundIds)).
MaxK == 2

\* Largest number of items handed to NewFundResult when the aggregator is
\* checked on its own.  sort.Slice is an insertion sort up to 12 elements
\* (with a preceding gap-6 pass from 7 elements on in older runtimes).
MaxItems == 3

\* ------------------------------------------------------------ input domain

\* Fund identifiers (FundId.Id, Fund.FCODE).
Ids == {"a", "b"}

\* Weights of the requests (FundId.Weight).
Weights == {0, 1, 2}

\* The values of Fund.GSZZL the provider may report: the empty string,
\* "1", "3", the non-numeric "x" and "1e999", a well-formed number beyond
\* the range of float64.
GSZZLs == {<<>>, <<"1">>, <<"3">>, <<"x">>, <<"1", "e", "9", "9", "9">>}

\* The GSZZL values the runs of the whole pipeline are started with: two
\* numbers and a value that does not parse.  No step before NewFundResult
\* reads a GSZZL; NewFundResult is run on every value of GSZZLs in SpecAgg.
PipelineGSZZLs == {<<"1">>, <<"3">>, <<"x">>}

\* type FundId struct { Id string; Weight float64 }
FundId(id, weight) == [Id |-> id, Weight |-> weight]

FundIdValues == {FundId(id, w) : id \in Ids, w \in Weights}

\* All request lists of at most n entries.
FundIdLists(n) == UNION {[1 .. k -> FundIdValues] : k \in 0 .. n}

\* type Fund struct { FCODE, SHORTNAME, GZTIME, GSZZL string }; the two
\* display-only fields SHORTNAME and GZTIME are carried nowhere in the
\* pipeline but the presenter and are left out.
Fund(fcode, gszzl) == [FCODE |-> fcode, GSZZL |-> gszzl]

\* type FundItem struct { Fund; Weight float64 }
FundItem(fund, weight) ==
    [FCODE |-> fund.FCODE, GSZZL |-> fund.GSZZL, Weight |-> weight]

\* The zero value of Fund / FundItem held by a local not yet assigned.
NoFund == Fund("", <<>>)

NoItem == FundItem(NoFund, 0)

\* --------------------------------------------------------- float64 values

Abs(n) == IF n < 0 THEN -n ELSE n

RECURSIVE Gcd(_, _)
Gcd(a, b) == IF b = 0 THEN a ELSE Gcd(b, a % b)

\* A float64 is a finite value, kept as the exact fraction num/den it
\* rounds, or one of NaN, +Inf, -Inf.
Finite(n) == [cls |-> "finite", num |-> n, den |-> 1]

Special(cls) == [cls |-> cls, num |-> 0, den |-> 0]

\* -1, 0 or 1: the sign of a float64 that is not NaN.
Sign(x) ==
    CASE x.cls = "+Inf" -> 1
      [] x.cls = "-Inf" -> -1
      [] OTHER -> IF x.num > 0 THEN 1 ELSE IF x.num < 0 THEN -1 ELSE 0

Inf(sign) == Special(IF sign > 0 THEN "+Inf" ELSE "-Inf")

\* The float64 quotient num / den of two integer-valued floats: IEEE-754
\* division never traps; x/0 is +Inf or -Inf, 0/0 is NaN.  A finite
\* quotient is kept as the reduced fraction it rounds.
FloatDiv(num, den) ==
    IF den = 0
    THEN [cls |-> IF num = 0 THEN "NaN" ELSE IF num > 0 THEN "+Inf" ELSE "-Inf",
          num |-> 0, den |-> 0]
    ELSE LET g == Gcd(Abs(num), Abs(den))
             s == IF den < 0 THEN -1 ELSE 1
         IN  [cls |-> "finite", num |-> (s * num) \div g, den |-> (s * den) \div g]

\* The float64 operations below take their operands p and q as the values
\* x and y they have, each evaluated once.

\* x * y for float64 values whose finite values are integers: Inf * 0 is
\* NaN, Inf times anything else is Inf with the product's sign.
FloatMul(p, q) ==
    CHOOSE r \in {IF x.cls = "NaN" \/ y.cls = "NaN" THEN Special("NaN")
                  ELSE IF x.cls = "finite" /\ y.cls = "finite"
                       THEN Finite(x.num * y.num)
                  ELSE IF Sign(x) * Sign(y) = 0 THEN Special("NaN")
                  ELSE Inf(Sign(x) * Sign(y)) : x \in {p}, y \in {q}} : TRUE

\* x + y: Inf + (-Inf) is NaN, Inf plus anything else is that Inf.
FloatAdd(p, q) ==
    CHOOSE r \in {IF x.cls = "NaN" \/ y.cls = "NaN" THEN Special("NaN")
                  ELSE IF x.cls = "finite" /\ y.cls = "finite"
                       THEN Finite(x.num + y.num)
                  ELSE IF x.cls = "finite" THEN y
                  ELSE IF y.cls = "finite" THEN x
                  ELSE IF x.cls = y.cls THEN x
                  ELSE Special("NaN") : x \in {p}, y \in {q}} : TRUE

\* x / y: Inf / Inf is NaN, Inf / finite is Inf, finite / Inf is 0.
FloatQuot(p, q) ==
    CHOOSE r \in {IF x.cls = "NaN" \/ y.cls = "NaN" THEN Special("NaN")
                  ELSE IF x.cls = "finite" /\ y.cls = "finite"
                       THEN FloatDiv(x.num, y.num)
                  ELSE IF x.cls # "finite" /\ y.cls # "finite" THEN Special("NaN")
                  ELSE IF y.cls # "finite" THEN Finite(0)
                  ELSE Inf(Sign(x) * (IF y.num < 0 THEN -1 ELSE 1)) :
                  x \in {p}, y \in {q}} : TRUE

\* strconv.ParseFloat(s, 64) on a decimal literal: an optional sign, one or
\* more digits and an optional exponent "e" with one or more digits.  A
\* string of another form is a syntax error, reported with the value 0.  A
\* well-formed literal whose magnitude is beyond float64 is a range error,
\* reported with the value +Inf or -Inf.
Digits == {"0", "1", "2", "3", "4", "5", "6", "7", "8", "9"}

DigitValue(c) ==
    CASE c = "0" -> 0 [] c = "1" -> 1 [] c = "2" -> 2 [] c = "3" -> 3
      [] c = "4" -> 4 [] c = "5" -> 5 [] c = "6" -> 6 [] c = "7" -> 7
      [] c = "8" -> 8 [] c = "9" -> 9

RECURSIVE ParseDigits(_, _)
ParseDigits(s, acc) ==
    IF s = <<>> THEN acc ELSE ParseDigits(Tail(s), 10 * acc + DigitValue(Head(s)))

AllDigits(s) == s # <<>> /\ \A k \in 1 .. Len(s) : s[k] \in Digits

RECURSIVE Pow10(_)
Pow10(n) == IF n = 0 THEN 1 ELSE 10 * Pow10(n - 1)

\* The largest decimal exponent of a float64 (1.797e308).
MaxFloat64Exp10 == 308

ParseFloat(s) ==
    LET neg   == s # <<>> /\ Head(s) = "-"
        body  == IF s # <<>> /\ Head(s) \in {"-", "+"} THEN Tail(s) ELSE s
        es    == {k \in 1 .. Len(body) : body[k] = "e"}
        ePos  == IF es = {} THEN Len(body) + 1
                 ELSE CHOOSE k \in es : \A m \in es : k <= m
        mant  == SubSeq(body, 1, ePos - 1)
        expo  == SubSeq(body, ePos + 1, Len(body))
        sgn   == IF neg THEN -1 ELSE 1
    IN  IF ~AllDigits(mant) \/ (es # {} /\ ~AllDigits(expo))
        THEN [val |-> Finite(0), err |-> "syntax"]
        ELSE LET m == ParseDigits(mant, 0)
                 e == ParseDigits(expo, 0)
             IN  IF m # 0 /\ e + Len(mant) - 1 > MaxFloat64Exp10
                 THEN [val |-> Inf(sgn), err |-> "range"]
                 ELSE [val |-> Finite(sgn * m * Pow10(e)), err |-> ""]

\* func (p FundItem) Zzl() float64: the parse error is discarded.
Zzl(item) == ParseFloat(item.GSZZL).val

\* -------------------------------------------------------------- aggregator

\* Mutant: the comparison turned round.
LessAscending(items, i, j) == items[i].Weight <= items[j].Weight

\* The less function handed to sort.Slice.
Less(items, i, j) == items[i].Weight >= items[j].Weight

\* Mutant: a swap that overwrites one element instead of exchanging two.
SwapOverwrites(items, i, j) == [items EXCEPT ![i] = items[j]]

Swap(items, i, j) == [items EXCEPT ![i] = items[j], ![j] = items[i]]

\* The inner loop of the insertion sort sort.Slice runs on slices of at
\* most 12 elements: move element j left while it is "less" than its left
\* neighbour.
RECURSIVE InsertLeft(_, _)
InsertLeft(items, j) ==
    IF j > 1 /\ Less(items, j, j - 1)
    THEN InsertLeft(Swap(items, j, j - 1), j - 1)
    ELSE items

RECURSIVE InsertionSortFrom(_, _)
InsertionSortFrom(items, i) ==
    IF i > Len(items) THEN items
    ELSE InsertionSortFrom(InsertLeft(items, i), i + 1)

\* Mutant: no sort at all, as in the NewFundResult of src/Fund.go.
SortSliceMissing(items) == items

\* sort.Slice(items, less)
SortSlice(items) == InsertionSortFrom(items, 2)

RECURSIVE SumTotal(_, _)
SumTotal(funds, k) ==
    IF k = 0 THEN Finite(0)
    ELSE FloatAdd(SumTotal(funds, k - 1),
                  FloatMul(Zzl(funds[k]), Finite(funds[k].Weight)))

RECURSIVE SumWeight(_, _)
SumWeight(funds, k) ==
    IF k = 0 THEN 0 ELSE SumWeight(funds, k - 1) + funds[k].Weight

RECURSIVE SumZzl(_, _)
SumZzl(funds, k) ==
    IF k = 0 THEN Finite(0)
    ELSE FloatAdd(SumZzl(funds, k - 1), Zzl(funds[k]))

\* Mutant: the plain mean of the percentages, the weights ignored.
avgUnweighted(funds) ==
    FloatQuot(SumZzl(funds, Len(funds)), Finite(Len(funds)))

\* func (p FundResult) avg() float64
avg(funds) ==
    FloatQuot(SumTotal(funds, Len(funds)), Finite(SumWeight(funds, Len(funds))))

\* func NewFundResult(items []FundItem) FundResult
NewFundResult(items) ==
    CHOOSE fundResult \in {[Funds |-> sorted, Avg |-> avg(sorted)] :
                              sorted \in {SortSlice(items)}} : TRUE

\* No FundResult returned yet.
NoResult == [Funds |-> <<>>, Avg |-> Special("none")]

\* ------------------------------------------------------------- LoadFundIds

\* strings.Split(s, sep) for a separator of one character: the pieces of s
\* between the separators; a string without the separator is one piece.
RECURSIVE Split(_, _)
Split(s, sep) ==
    LET hits == {k \in 1 .. Len(s) : s[k] = sep}
    IN  IF hits = {} THEN <<s>>
        ELSE LET k == CHOOSE h \in hits : \A m \in hits : h <= m
             IN  <<SubSeq(s, 1, k - 1)>> \o Split(SubSeq(s, k + 1, Len(s)), sep)

\* What a call of LoadFundIds ends in: the list it returns, or a panic.
Loaded(ids) == [ids |-> ids, panic |-> ""]

LoadPanic(reason) == [ids |-> <<>>, panic |-> reason]

NotLoaded == LoadPanic("not called")

\* The range loop of LoadFundIds in main.go over the lines still to read:
\* an empty line is skipped, i[1] of a line without a comma is out of range,
\* the error of ParseFloat is discarded.
RECURSIVE LoadLoop(_, _)
LoadLoop(split, ids) ==
    IF split = <<>> THEN Loaded(ids)
    ELSE LET v == Head(split)
             i == Split(v, ",")
         IN  IF v = <<>> THEN LoadLoop(Tail(split), ids)
             ELSE IF Len(i) < 2 THEN LoadPanic("index out of range")
             ELSE LoadLoop(Tail(split),
                           Append(ids, FundId(i[1], ParseFloat(i[2]).val)))

\* LoadFundIds of main.go on the content of $HOME/.fund; the error of
\* os.ReadFile is discarded, so an absent file reads as the empty string.
LoadFundIds(content) == LoadLoop(Split(content, "\n"), <<>>)

\* The range loop of LoadFundIds in src/Fund.go: no line is skipped.
RECURSIVE SeqLoadLoop(_, _)
SeqLoadLoop(split, ids) ==
    IF split = <<>> THEN Loaded(ids)
    ELSE LET v == Head(split)
             i == Split(v, ",")
         IN  IF Len(i) < 2 THEN LoadPanic("index out of range")
             ELSE SeqLoadLoop(Tail(split),
                              Append(ids, FundId(i[1], ParseFloat(i[2]).val)))

\* LoadFundIds of src/Fund.go.
SeqLoadFundIds(content) == SeqLoadLoop(Split(content, "\n"), <<>>)

\* ------------------------------------------------------------------- state

VARIABLES
    fundIds,        \* the request list GetFundResult was called with
    quote,          \* what the provider reports for each identifier (GSZZL)
    proc,           \* the process: "running", "fatal" (log.Fatal), "panic"
    mpc,            \* position of the orchestrating goroutine in GetFundResult
    worker,         \* per request: the GetFundRoutine goroutine's pc and locals
    cpc,            \* position of the collector goroutine
    cfund,          \* the collector's loop variable fund
    workerGroup,    \* counter of workerGroup
    consumerGroup,  \* counter of consumerGroup
    closed,         \* fundChan has been closed
    items,          \* the shared slice items
    handed,         \* history: items as it was when passed to NewFundResult
    result,         \* the FundResult GetFundResult returned
    file,           \* the content of $HOME/.fund (empty when it is absent)
    loaded,         \* what LoadFundIds returned, or the panic it ended in
    body,           \* the list the JSON body of the request decodes to
    bodyRead,       \* the handler has read r.Body
    spc,            \* position of main: console or server mode, handler
    served,         \* number of requests the server has finished with
    response        \* what the handler wrote for the last request

\* The variables of main, Console and the handlers around GetFundResult.
env == <<file, loaded, body, bodyRead, spc, served, response>>

vars == <<fundIds, quote, proc, mpc, worker, cpc, cfund, workerGroup,
          consumerGroup, closed, items, handed, result, file, loaded, body,
          bodyRead, spc, served, response>>

K == Len(fundIds)

WorkerIds == 1 .. K

\* A goroutine that the go statement has not started yet.
Unborn ==
    [pc |-> "unborn", id |-> "", weight |-> 0, item |-> NoItem, panic |-> "",
     status |-> ""]

\* Nothing has been written to w.
NoResponse == [status |-> "none", result |-> NoResult]

\* GetFundResult called on its own with a given request list: the file, the
\* request body and the handlers play no part.
EnvUnused ==
    /\ file = <<>>
    /\ loaded = NotLoaded
    /\ body = <<>>
    /\ bodyRead = FALSE
    /\ spc = "call"
    /\ served = 0
    /\ response = NoResponse

\* GetFundResult up to and including items := make([]FundItem, 0).
Init ==
    /\ fundIds \in FundIdLists(MaxK)
    /\ quote \in [Ids -> PipelineGSZZLs]
    /\ proc = "running"
    /\ mpc = "spawn"
    /\ worker = [i \in 1 .. Len(fundIds) |-> Unborn]
    /\ cpc = "unborn"
    /\ cfund = NoItem
    /\ workerGroup = Len(fundIds)
    /\ consumerGroup = 1
    /\ closed = FALSE
    /\ items = <<>>
    /\ handed = <<>>
    /\ result = NoResult
    /\ EnvUnused

\* ------------------------------------------------------------------ GetFund

\* The ways GetFund(id) ends: the provider answers 2xx and the body decodes
\* ("ok"); json.Unmarshal fails on the body, whatever the status, and
\* log.Fatal exits the process ("decodeErr"); the transport fails, resp is nil
\* and resp.Body panics ("transportErr"); the provider answers with a status
\* outside 2xx and a JSON body without an Expansion member ("non2xx"):
\* StatusCode is never read, json.Unmarshal succeeds and wrapper.Fund is the
\* zero Fund.
FetchOutcomes == {"ok", "decodeErr", "transportErr", "non2xx"}

\* The Fund decoded from the provider's answer for id.
GetFund(id) == Fund(id, quote[id])

\* --------------------------------------------------- orchestrator goroutine

\* Mutant: the goroutine reads the weight through the shared loop variable
\* and sees the weight of the last request.
SpawnWorkerSharedLoopVariable ==
    /\ proc = "running"
    /\ mpc = "spawn"
    /\ \E i \in WorkerIds :
          /\ worker[i].pc = "unborn"
          /\ \A j \in 1 .. i - 1 : worker[j].pc # "unborn"
          /\ worker' = [worker EXCEPT ![i] =
                           [pc |-> "fetch", id |-> fundIds[i].Id,
                            weight |-> fundIds[K].Weight, item |-> NoItem,
                            panic |-> "", status |-> ""]]
    /\ UNCHANGED <<fundIds, quote, proc, mpc, cpc, cfund, workerGroup,
                   consumerGroup, closed, items, handed, result>>
    /\ UNCHANGED env

\* go GetFundRoutine(idAndWeight.Id, idAndWeight.Weight, &workerGroup, fundChan)
\* for the next request of the range loop: the arguments are evaluated here.
SpawnWorker ==
    /\ proc = "running"
    /\ mpc = "spawn"
    /\ \E i \in WorkerIds :
          /\ worker[i].pc = "unborn"
          /\ \A j \in 1 .. i - 1 : worker[j].pc # "unborn"
          /\ worker' = [worker EXCEPT ![i] =
                           [pc |-> "fetch", id |-> fundIds[i].Id,
                            weight |-> fundIds[i].Weight, item |-> NoItem,
                            panic |-> "", status |-> ""]]
    /\ UNCHANGED <<fundIds, quote, proc, mpc, cpc, cfund, workerGroup,
                   consumerGroup, closed, items, handed, result>>
    /\ UNCHANGED env

\* go func() { ... }() once the range loop is over.
SpawnCollector ==
    /\ proc = "running"
    /\ mpc = "spawn"
    /\ \A i \in WorkerIds : worker[i].pc # "unborn"
    /\ cpc' = "recv"
    /\ mpc' = "waitWorkers"
    /\ UNCHANGED <<fundIds, quote, proc, worker, cfund, workerGroup,
                   consumerGroup, closed, items, handed, result>>
    /\ UNCHANGED env

\* Mutant: a wait that returns one Done too early.
WorkerGroupWaitReturnsEarly == workerGroup <= 1

\* workerGroup.Wait() returns when the counter is zero.
WorkerGroupWaitReturns == workerGroup = 0

\* Mutant: close(fundChan) reached without waiting for the workers.
WaitWorkersSkipped ==
    /\ proc = "running"
    /\ mpc = "waitWorkers"
    /\ mpc' = "close"
    /\ UNCHANGED <<fundIds, quote, proc, worker, cpc, cfund, workerGroup,
                   consumerGroup, closed, items, handed, result>>
    /\ UNCHANGED env

WaitWorkers ==
    /\ proc = "running"
    /\ mpc = "waitWorkers"
    /\ WorkerGroupWaitReturns
    /\ mpc' = "close"
    /\ UNCHANGED <<fundIds, quote, proc, worker, cpc, cfund, workerGroup,
                   consumerGroup, closed, items, handed, result>>
    /\ UNCHANGED env

\* close(fundChan)
CloseChan ==
    /\ proc = "running"
    /\ mpc = "close"
    /\ closed' = TRUE
    /\ mpc' = "waitConsumer"
    /\ UNCHANGED <<fundIds, quote, proc, worker, cpc, cfund, workerGroup,
                   consumerGroup, items, handed, result>>
    /\ UNCHANGED env

\* Mutant: consumerGroup.Wait() left out.
ConsumerGroupWaitMissing == TRUE

\* consumerGroup.Wait() returns when the counter is zero.
ConsumerGroupWaitReturns == consumerGroup = 0

WaitConsumer ==
    /\ proc = "running"
    /\ mpc = "waitConsumer"
    /\ ConsumerGroupWaitReturns
    /\ mpc' = "newResult"
    /\ UNCHANGED <<fundIds, quote, proc, worker, cpc, cfund, workerGroup,
                   consumerGroup, closed, items, handed, result>>
    /\ UNCHANGED env

\* return NewFundResult(items): sort.Slice sorts the shared slice in place
\* and the result's Funds is that slice.
ReturnResult ==
    /\ proc = "running"
    /\ mpc = "newResult"
    /\ handed' = items
    /\ result' = NewFundResult(items)
    /\ items' = result'.Funds
    /\ mpc' = "returned"
    /\ UNCHANGED <<fundIds, quote, proc, worker, cpc, cfund, workerGroup,
                   consumerGroup, closed>>
    /\ UNCHANGED env

\* ------------------------------------------------------- worker goroutines

\* fund := GetFund(id); item := FundItem{fund, weight}
WorkerFetch(i) ==
    /\ proc = "running"
    /\ worker[i].pc = "fetch"
    /\ \E outcome \in FetchOutcomes :
          CASE outcome = "ok" ->
                 /\ worker' = [worker EXCEPT
                                 ![i].pc = "send",
                                 ![i].status = "2xx",
                                 ![i].item = FundItem(GetFund(worker[i].id),
                                                      worker[i].weight)]
                 /\ proc' = proc
            [] outcome = "non2xx" ->
                 /\ worker' = [worker EXCEPT
                                 ![i].pc = "send",
                                 ![i].status = "non2xx",
                                 ![i].item = FundItem(NoFund, worker[i].weight)]
                 /\ proc' = proc
            [] outcome = "decodeErr" ->
                 /\ proc' = "fatal"
                 /\ worker' = worker
            [] outcome = "transportErr" ->
                 /\ worker' = [worker EXCEPT
                                 ![i].pc = "panicking",
                                 ![i].panic = "nil pointer dereference"]
                 /\ proc' = proc
    /\ UNCHANGED <<fundIds, quote, mpc, cpc, cfund, workerGroup,
                   consumerGroup, closed, items, handed, result>>
    /\ UNCHANGED env

\* Mutant: a send that does not wait for the receiver and loses the item.
WorkerSendDropped(i) ==
    /\ proc = "running"
    /\ worker[i].pc = "send"
    /\ worker' = [worker EXCEPT ![i].pc = "deferred"]
    /\ UNCHANGED <<fundIds, quote, proc, mpc, cpc, cfund, workerGroup,
                   consumerGroup, closed, items, handed, result>>
    /\ UNCHANGED env

\* ch <- item on the unbuffered channel: the send completes in the step in
\* which the collector's range loop receives the item.  A send on a closed
\* channel panics.
WorkerSend(i) ==
    /\ proc = "running"
    /\ worker[i].pc = "send"
    /\ IF closed
       THEN /\ worker' = [worker EXCEPT
                            ![i].pc = "panicking",
                            ![i].panic = "send on closed channel"]
            /\ UNCHANGED <<cpc, cfund>>
       ELSE /\ cpc = "recv"
            /\ cfund' = worker[i].item
            /\ cpc' = "append"
            /\ worker' = [worker EXCEPT ![i].pc = "deferred"]
    /\ UNCHANGED <<fundIds, quote, proc, mpc, workerGroup, consumerGroup,
                   closed, items, handed, result>>
    /\ UNCHANGED env

\* Mutant: GetFundRoutine without its defer wg.Done().
WorkerDoneMissing(i) ==
    /\ proc = "running"
    /\ worker[i].pc \in {"deferred", "panicking"}
    /\ worker' = [worker EXCEPT
                    ![i].pc = IF worker[i].pc = "deferred" THEN "done"
                              ELSE "crashing"]
    /\ UNCHANGED <<fundIds, quote, proc, mpc, cpc, cfund, workerGroup,
                   consumerGroup, closed, items, handed, result>>
    /\ UNCHANGED env

\* defer wg.Done(): runs when GetFundRoutine returns and also while it
\* panics, before the runtime ends the process.
WorkerDone(i) ==
    /\ proc = "running"
    /\ worker[i].pc \in {"deferred", "panicking"}
    /\ workerGroup' = workerGroup - 1
    /\ worker' = [worker EXCEPT
                    ![i].pc = IF worker[i].pc = "deferred" THEN "done"
                              ELSE "crashing"]
    /\ UNCHANGED <<fundIds, quote, proc, mpc, cpc, cfund, consumerGroup,
                   closed, items, handed, result>>
    /\ UNCHANGED env

\* The unrecovered panic of a goroutine ends the process.
ProcessCrash(i) ==
    /\ proc = "running"
    /\ worker[i].pc = "crashing"
    /\ proc' = "panic"
    /\ UNCHANGED <<fundIds, quote, mpc, worker, cpc, cfund, workerGroup,
                   consumerGroup, closed, items, handed, result>>
    /\ UNCHANGED env

\* ----------------------------------------------------- collector goroutine

\* Mutant: append(items, fund) with its result thrown away.
CollectorAppendDiscarded ==
    /\ proc = "running"
    /\ cpc = "append"
    /\ cpc' = "recv"
    /\ UNCHANGED <<fundIds, quote, proc, mpc, worker, cfund, workerGroup,
                   consumerGroup, closed, items, handed, result>>
    /\ UNCHANGED env

\* Mutant: the slice is replaced by the one received item.
CollectorAppendOverwrites ==
    /\ proc = "running"
    /\ cpc = "append"
    /\ items' = <<cfund>>
    /\ cpc' = "recv"
    /\ UNCHANGED <<fundIds, quote, proc, mpc, worker, cfund, workerGroup,
                   consumerGroup, closed, handed, result>>
    /\ UNCHANGED env

\* items = append(items, fund)
CollectorAppend ==
    /\ proc = "running"
    /\ cpc = "append"
    /\ items' = Append(items, cfund)
    /\ cpc' = "recv"
    /\ UNCHANGED <<fundIds, quote, proc, mpc, worker, cfund, workerGroup,
                   consumerGroup, closed, handed, result>>
    /\ UNCHANGED env

\* for fund := range fundChan ends once the channel is closed.
CollectorLoopEnds ==
    /\ proc = "running"
    /\ cpc = "recv"
    /\ closed
    /\ cpc' = "loopDone"
    /\ UNCHANGED <<fundIds, quote, proc, mpc, worker, cfund, workerGroup,
                   consumerGroup, closed, items, handed, result>>
    /\ UNCHANGED env

\* consumerGroup.Done()
CollectorDone ==
    /\ proc = "running"
    /\ cpc = "loopDone"
    /\ consumerGroup' = consumerGroup - 1
    /\ cpc' = "exit"
    /\ UNCHANGED <<fundIds, quote, proc, mpc, worker, cfund, workerGroup,
                   closed, items, handed, result>>
    /\ UNCHANGED env

\* ------------------------------------------------------------ specification

Next ==
    \/ SpawnWorker
    \/ SpawnCollector
    \/ WaitWorkers
    \/ CloseChan
    \/ WaitConsumer
    \/ ReturnResult
    \/ \E i \in WorkerIds : WorkerFetch(i)
    \/ \E i \in WorkerIds : WorkerSend(i)
    \/ \E i \in WorkerIds : WorkerDone(i)
    \/ \E i \in WorkerIds : ProcessCrash(i)
    \/ CollectorAppend
    \/ CollectorLoopEnds
    \/ CollectorDone

Spec == Init /\ [][Next]_vars

\* The Go scheduler does not stop while some goroutine can take a step, and
\* every GetFund call ends: the process keeps taking steps as long as one is
\* possible.  No step of the pipeline reads a quote before NewFundResult, so
\* progress is checked with one fixed quote per identifier.
InitFair == Init /\ quote = [id \in Ids |-> <<"1">>]

FairSpec == InitFair /\ [][Next]_vars /\ WF_vars(Next)

\* ------------------------------------------------ the aggregator on its own

\* The item request i yields: the quote of its identifier with its weight.
ExpectedItem(i) == FundItem(GetFund(fundIds[i].Id), fundIds[i].Weight)

Perms(n) == {p \in [1 .. n -> 1 .. n] : \A i, j \in 1 .. n : p[i] = p[j] => i = j}

\* The states in which GetFundResult is about to call NewFundResult: every
\* worker has sent and returned, the collector has appended the items in
\* some order of arrival and has finished.
InitAgg ==
    /\ fundIds \in FundIdLists(MaxItems)
    /\ quote \in [Ids -> GSZZLs]
    /\ proc = "running"
    /\ mpc = "newResult"
    /\ worker = [i \in 1 .. Len(fundIds) |->
                    [pc |-> "done", id |-> fundIds[i].Id,
                     weight |-> fundIds[i].Weight, item |-> ExpectedItem(i),
                     panic |-> "", status |-> "2xx"]]
    /\ cpc = "exit"
    /\ \E p \in Perms(Len(fundIds)) :
          items = [j \in 1 .. Len(fundIds) |-> ExpectedItem(p[j])]
    /\ cfund = IF items = <<>> THEN NoItem ELSE items[Len(items)]
    /\ workerGroup = 0
    /\ consumerGroup = 0
    /\ closed = TRUE
    /\ handed = <<>>
    /\ result = NoResult
    /\ EnvUnused

NextAgg == ReturnResult

SpecAgg == InitAgg /\ [][NextAgg]_vars

\* ------------------------------------------- the sequential GetFundResult

\* src/Fund.go, func (p FundResult) avg() float64: the same loop as main.go's.
SeqAvg(funds) ==
    FloatQuot(SumTotal(funds, Len(funds)), Finite(SumWeight(funds, Len(funds))))

\* src/Fund.go, func NewFundResult(items []FundItem) FundResult: no sort.
SeqNewFundResult(fundItems) == [Funds |-> fundItems, Avg |-> SeqAvg(fundItems)]

\* src/Fund.go, func GetFundResult(fundIds []FundId) FundResult: one fetch
\* after the other, in request order.
RECURSIVE SeqFundItems(_, _)
SeqFundItems(ids, k) ==
    IF k = 0 THEN <<>>
    ELSE Append(SeqFundItems(ids, k - 1),
                FundItem(GetFund(ids[k].Id), ids[k].Weight))

SeqGetFundResult(ids) == SeqNewFundResult(SeqFundItems(ids, Len(ids)))

\* ------------------------------------------------- LoadFundIds on its own

\* The largest number of lines of a file.
MaxLines == 3

\* The lines a file is made of: an empty line, identifier,weight lines with
\* a numeric and a non-numeric weight, and a line without a comma.
Lines == {<<>>, <<"a", ",", "1">>, <<"b", ",", "x">>, <<"b", ",", "2">>, <<"a">>}

RECURSIVE JoinLines(_)
JoinLines(ls) ==
    IF ls = <<>> THEN <<>>
    ELSE IF Len(ls) = 1 THEN ls[1]
    ELSE ls[1] \o <<"\n">> \o JoinLines(Tail(ls))

\* The contents of $HOME/.fund: up to MaxLines lines separated by "\n"; a
\* last empty line is a trailing newline, no line at all an empty or absent
\* file.
Files == {JoinLines(ls) : ls \in UNION {[1 .. k -> Lines] : k \in 0 .. MaxLines}}

\* No call of GetFundResult is under way.
PipelineIdle ==
    /\ fundIds = <<>>
    /\ quote = [id \in Ids |-> <<"1">>]
    /\ proc = "running"
    /\ mpc = "idle"
    /\ worker = <<>>
    /\ cpc = "unborn"
    /\ cfund = NoItem
    /\ workerGroup = 0
    /\ consumerGroup = 0
    /\ closed = FALSE
    /\ items = <<>>
    /\ handed = <<>>
    /\ result = NoResult

pipeline == <<fundIds, quote, proc, mpc, worker, cpc, cfund, workerGroup,
              consumerGroup, closed, items, handed, result>>

InitLoad ==
    /\ PipelineIdle
    /\ file \in Files
    /\ loaded = NotLoaded
    /\ body = <<>>
    /\ bodyRead = FALSE
    /\ spc = "start"
    /\ served = 0
    /\ response = NoResponse

\* ids := LoadFundIds() of main.go.
CallLoadFundIds ==
    /\ spc = "start"
    /\ loaded' = LoadFundIds(file)
    /\ spc' = "loaded"
    /\ UNCHANGED <<file, body, bodyRead, served, response>>
    /\ UNCHANGED pipeline

\* ids := LoadFundIds() of src/Fund.go.
CallSeqLoadFundIds ==
    /\ spc = "start"
    /\ loaded' = SeqLoadFundIds(file)
    /\ spc' = "seqLoaded"
    /\ UNCHANGED <<file, body, bodyRead, served, response>>
    /\ UNCHANGED pipeline

NextLoad == CallLoadFundIds \/ CallSeqLoadFundIds

SpecLoad == InitLoad /\ [][NextLoad]_vars

\* -------------------------------------------------------------- server mode

\* The largest number of requests the server is sent.
MaxRequests == 2

\* The contents of $HOME/.fund in server mode: empty or absent, one request
\* with a trailing newline, a line without a comma.
ServerFiles == {<<>>, <<"a", ",", "1", "\n">>, <<"a">>}

\* The lists the JSON body of a request decodes to; a request without a
\* body, or with one that is not JSON, leaves ids empty.
Bodies == {<<>>, <<FundId("b", 2)>>}

\* A FundId of LoadFundIds as GetFundResult takes it: the identifiers of
\* ServerFiles are one character long and their weights are whole numbers.
Request(r) == FundId(r.Id[1], r.Weight.num)

\* WebServer: http.ListenAndServe waits for the first request.
InitServer ==
    /\ PipelineIdle
    /\ file = <<>>
    /\ loaded = NotLoaded
    /\ body = <<>>
    /\ bodyRead = FALSE
    /\ spc = "idle"
    /\ served = 0
    /\ response = NoResponse

\* json.NewEncoder(w).Encode(result): encoding/json refuses a NaN or an
\* infinite Avg and then writes nothing; the error is discarded.
Encode(res) ==
    IF res.Avg.cls = "finite"
    THEN [status |-> "200", result |-> res]
    ELSE [status |-> "200", result |-> NoResult]

\* Mutant: getResult decodes the body whatever LoadFundIds returned.
HandlerGetResultBodyAlways ==
    /\ proc = "running"
    /\ spc = "idle"
    /\ served < MaxRequests
    /\ \A i \in WorkerIds : worker[i].pc # "crashing"
    /\ \E f \in ServerFiles, b \in Bodies :
          LET l == LoadFundIds(f)
          IN  /\ file' = f
              /\ body' = b
              /\ loaded' = l
              /\ IF l.panic # ""
                 THEN /\ bodyRead' = FALSE
                      /\ spc' = "idle"
                      /\ served' = served + 1
                      /\ response' = [status |-> "aborted", result |-> NoResult]
                      /\ UNCHANGED pipeline
                 ELSE /\ bodyRead' = TRUE
                      /\ fundIds' = b
                      /\ worker' = [i \in 1 .. Len(fundIds') |-> Unborn]
                      /\ workerGroup' = Len(fundIds')
                      /\ consumerGroup' = 1
                      /\ mpc' = "spawn"
                      /\ cpc' = "unborn"
                      /\ cfund' = NoItem
                      /\ closed' = FALSE
                      /\ items' = <<>>
                      /\ handed' = <<>>
                      /\ result' = NoResult
                      /\ spc' = "fetching"
                      /\ UNCHANGED <<quote, proc, served, response>>

\* A request for /fund arrives and its handler runs getResult up to the
\* start of GetFundResult: ids := LoadFundIds(); the body is decoded into ids
\* if ids is empty; GetFundResult(ids) sets up its groups, channel and slice.
\* A panic of LoadFundIds is in the handler's goroutine, where net/http
\* recovers it and drops the connection.  Requests are taken one at a time,
\* and none while the runtime is ending the process.
HandlerGetResult ==
    /\ proc = "running"
    /\ spc = "idle"
    /\ served < MaxRequests
    /\ \A i \in WorkerIds : worker[i].pc # "crashing"
    /\ \E f \in ServerFiles, b \in Bodies :
          LET l == LoadFundIds(f)
          IN  /\ file' = f
              /\ body' = b
              /\ loaded' = l
              /\ IF l.panic # ""
                 THEN /\ bodyRead' = FALSE
                      /\ spc' = "idle"
                      /\ served' = served + 1
                      /\ response' = [status |-> "aborted", result |-> NoResult]
                      /\ UNCHANGED pipeline
                 ELSE /\ bodyRead' = (Len(l.ids) = 0)
                      /\ fundIds' = IF Len(l.ids) = 0 THEN b
                                    ELSE [k \in 1 .. Len(l.ids) |-> Request(l.ids[k])]
                      /\ worker' = [i \in 1 .. Len(fundIds') |-> Unborn]
                      /\ workerGroup' = Len(fundIds')
                      /\ consumerGroup' = 1
                      /\ mpc' = "spawn"
                      /\ cpc' = "unborn"
                      /\ cfund' = NoItem
                      /\ closed' = FALSE
                      /\ items' = <<>>
                      /\ handed' = <<>>
                      /\ result' = NoResult
                      /\ spc' = "fetching"
                      /\ UNCHANGED <<quote, proc, served, response>>

\* GetFundResult has returned to getResult and getResult to handler, which
\* sets the Content-Type and encodes the result.
HandlerRespond ==
    /\ proc = "running"
    /\ spc = "fetching"
    /\ mpc = "returned"
    /\ response' = Encode(result)
    /\ served' = served + 1
    /\ spc' = "idle"
    /\ UNCHANGED <<file, loaded, body, bodyRead>>
    /\ UNCHANGED pipeline

NextServer == HandlerGetResult \/ HandlerRespond \/ Next

SpecServer == InitServer /\ [][NextServer]_vars

\* ------------------------------------------------------------- properties

Range(s) == {s[i] : i \in DOMAIN s}

\* The bag (multiset) of the elements of a sequence.
BagOfSeq(s) == [x \in Range(s) |-> Cardinality({i \in DOMAIN s : s[i] = x})]

\* The items the K requests yield, in request order.
ExpectedItems == [i \in WorkerIds |-> ExpectedItem(i)]

\* No GetFund call of this run has failed.
NoFetchFailed ==
    /\ proc # "fatal"
    /\ \A i \in WorkerIds :
          /\ worker[i].panic # "nil pointer dereference"
          /\ worker[i].status # "non2xx"

\* C1: when all K fetches returned a quote, the slice GetFundResult passes to
\* NewFundResult holds exactly K items, one per request, whatever the order
\* in which the fetches completed: its bag of items is the bag of the items
\* the requests yield.
C1_OneItemPerRequest ==
    (mpc = "returned" /\ NoFetchFailed)
        => /\ Len(handed) = K
           /\ BagOfSeq(handed) = BagOfSeq(ExpectedItems)

\* Two requests with different items, the second one's item arriving first.
C1_Witness ==
    /\ mpc = "returned"
    /\ NoFetchFailed
    /\ K = 2
    /\ ExpectedItem(1) # ExpectedItem(2)
    /\ handed = <<ExpectedItem(2), ExpectedItem(1)>>

\* C2: GetFundResult returns only when no worker's fetch or send is still
\* outstanding: every worker goroutine has left GetFund and has run its
\* wg.Done, either returning normally or on its way to ending the process.
C2_NoOutstandingFetchAtReturn ==
    mpc = "returned"
        => /\ workerGroup = 0
           /\ \A i \in WorkerIds : worker[i].pc \in {"done", "crashing"}

C2_Witness ==
    /\ mpc = "returned"
    /\ K = 2
    /\ \A i \in WorkerIds : worker[i].pc = "done"

\* C3: items is never accessed concurrently.  Every step that changes items
\* is either the collector's append, taken while the orchestrator stands
\* still, or the orchestrator's sort after the collector has exited; and the
\* orchestrator is at or past NewFundResult(items) only when the collector
\* has done its last append and consumerGroup.Done.
C3_NoConcurrentAccess ==
    [][/\ items' # items =>
            \/ /\ cpc = "append" /\ cpc' = "recv"
               /\ items' = Append(items, cfund)
               /\ mpc' = mpc /\ mpc \notin {"newResult", "returned"}
            \/ /\ mpc = "newResult" /\ mpc' = "returned"
               /\ cpc = "exit" /\ cpc' = "exit"
       /\ mpc' \in {"newResult", "returned"} =>
            /\ cpc' = "exit"
            /\ consumerGroup' = 0]_vars

\* The orchestrator reads a slice the collector filled with two items.
C3_Witness ==
    /\ mpc = "newResult"
    /\ cpc = "exit"
    /\ Len(items) = 2

\* C4: the two-phase join.  fundChan is closed only when every worker has
\* completed its send and run wg.Done (or died in GetFund without sending),
\* no worker panics with a send on the closed channel, and the orchestrator
\* is past consumerGroup.Wait only when the collector has seen the close,
\* left its loop and appended every item that was sent.
C4_TwoPhaseJoin ==
    /\ closed =>
          \A i \in WorkerIds : worker[i].pc \in {"done", "crashing"}
    /\ \A i \in WorkerIds : worker[i].panic # "send on closed channel"
    /\ mpc \in {"newResult", "returned"} =>
          /\ closed
          /\ cpc = "exit"
          /\ Len(IF mpc = "returned" THEN handed ELSE items)
                = Cardinality({i \in WorkerIds : worker[i].pc = "done"})

\* The channel is closed after two sends and the collector has drained both.
C4_Witness ==
    /\ closed
    /\ mpc = "newResult"
    /\ Len(items) = 2
    /\ \A i \in WorkerIds : worker[i].pc = "done"

\* C5: under fair scheduling GetFundResult returns a FundResult unless a
\* GetFund call fails: no interleaving of the workers, the collector and the
\* orchestrator on the unbuffered channel and the two WaitGroups blocks for
\* ever, for every K from 0 on.
C5_EventuallyReturns == <>(mpc = "returned" \/ ~NoFetchFailed)

\* A run of MaxK workers that returns with no failed fetch.
C5_Witness ==
    /\ mpc = "returned"
    /\ NoFetchFailed
    /\ K = MaxK
    /\ Len(result.Funds) = MaxK

\* The run with no request at all returns too.
C5_WitnessNoRequest ==
    /\ mpc = "returned"
    /\ K = 0

\* The weights of the requests are pairwise distinct.
DistinctWeights ==
    \A i, j \in WorkerIds : i # j => fundIds[i].Weight # fundIds[j].Weight

\* C6: for a request list with pairwise distinct weights and fixed quotes
\* per identifier, the FundResult does not depend on the order in which the
\* fetches completed: whatever the order of arrival, it is the FundResult of
\* the items taken in request order (same Funds sequence, same Avg).
C6_ReportIndependentOfArrival ==
    (mpc = "returned" /\ NoFetchFailed /\ DistinctWeights)
        => result = NewFundResult(ExpectedItems)

\* A run whose items arrived in another order than requested and in another
\* order than the FundResult lists them.
C6_Witness ==
    /\ mpc = "returned"
    /\ NoFetchFailed
    /\ DistinctWeights
    /\ K = 2
    /\ handed # ExpectedItems
    /\ handed # result.Funds

\* C7: the Funds of the FundResult are in order of non-increasing weight.
C7_SortedByWeightDescending ==
    mpc = "returned"
        => \A i, j \in 1 .. Len(result.Funds) :
              i < j => result.Funds[i].Weight >= result.Funds[j].Weight

\* NewFundResult was given MaxItems items in order of increasing weight.
C7_Witness ==
    /\ mpc = "returned"
    /\ Len(handed) = MaxItems
    /\ \A i \in 1 .. Len(handed) - 1 : handed[i].Weight < handed[i + 1].Weight

\* C8: the sort is stable: of two different input items with equal weight
\* the one that is earlier in the input is earlier in Funds.
C8_StableSort ==
    mpc = "returned"
        => \A i, j \in 1 .. Len(handed) :
              (i < j /\ handed[i].Weight = handed[j].Weight
                     /\ handed[i] # handed[j])
                 => \E p, q \in 1 .. Len(result.Funds) :
                       /\ p < q
                       /\ result.Funds[p] = handed[i]
                       /\ result.Funds[q] = handed[j]

\* Sum of f[x] over the finite set S.
RECURSIVE SumOver(_, _)
SumOver(f, S) ==
    IF S = {} THEN 0
    ELSE LET x == CHOOSE y \in S : TRUE IN f[x] + SumOver(f, S \ {x})

\* Sum of the weights, and of percentage times weight, of the input items.
InputWeight == SumOver([i \in DOMAIN handed |-> handed[i].Weight], DOMAIN handed)

\* Float sum of f[x] over the finite set S.
RECURSIVE FloatSumOver(_, _)
FloatSumOver(f, S) ==
    IF S = {} THEN Finite(0)
    ELSE LET x == CHOOSE y \in S : TRUE
         IN  FloatAdd(f[x], FloatSumOver(f, S \ {x}))

InputTotal ==
    FloatSumOver([i \in DOMAIN handed |->
                     FloatMul(Zzl(handed[i]), Finite(handed[i].Weight))],
                 DOMAIN handed)

\* C9: when the weights of the input items sum to a non-zero value, Avg is
\* (sum of percentage * weight) / (sum of weights) of the items as they were
\* handed in, whatever their order: a finite sum gives that finite quotient,
\* an infinite or NaN sum gives an Avg of the same kind.
C9_WeightedMean ==
    (mpc = "returned" /\ InputWeight # 0)
        => IF InputTotal.cls = "finite"
           THEN /\ result.Avg.cls = "finite"
                /\ result.Avg.den # 0
                /\ result.Avg.num * InputWeight = result.Avg.den * InputTotal.num
           ELSE result.Avg.cls = InputTotal.cls

\* Percentage 1 with weight 2 and percentage 3 with weight 1 give 5/3; the
\* heavier item was handed in last.
C9_Witness ==
    /\ mpc = "returned"
    /\ handed = <<FundItem(Fund("b", <<"3">>), 1), FundItem(Fund("a", <<"1">>), 2)>>
    /\ result.Avg = [cls |-> "finite", num |-> 5, den |-> 3]

\* C10: when the weights of the input items sum to zero, building the
\* FundResult reports a division by zero instead of returning an Avg that is
\* NaN or infinite.
C10_DivisionByZeroReported ==
    (mpc = "returned" /\ handed # <<>> /\ InputWeight = 0)
        => result.Avg.cls \notin {"NaN", "+Inf", "-Inf"}

\* What an input item adds to the numerator when a GSZZL that fails to parse
\* counts as 0.
ContributionDefaultZero(item) ==
    IF ParseFloat(item.GSZZL).err # "" THEN 0
    ELSE ParseFloat(item.GSZZL).val.num * item.Weight

\* Some input item has a GSZZL that strconv.ParseFloat rejects.
SomeParseFailure ==
    \E i \in DOMAIN handed : ParseFloat(handed[i].GSZZL).err # ""

\* C11: an item whose GSZZL is empty or fails numeric parsing in another way
\* adds 0 to the numerator of the weighted sum while its weight still counts
\* in the denominator, and the aggregation goes through: Avg is the finite
\* quotient of the sum of the other items' percentage * weight by the sum of
\* all weights.
C11_ParseFailureCountsAsZero ==
    (mpc = "returned" /\ SomeParseFailure /\ InputWeight # 0)
        => /\ result.Avg.cls = "finite"
           /\ result.Avg.den # 0
           /\ result.Avg.num * InputWeight
                 = result.Avg.den
                     * SumOver([i \in DOMAIN handed |->
                                   ContributionDefaultZero(handed[i])],
                               DOMAIN handed)

\* The part of C11 that holds: the same statement for items whose GSZZL is
\* rejected as a syntax error (the empty string, "x").
OnlySyntaxFailures ==
    \A i \in DOMAIN handed : ParseFloat(handed[i].GSZZL).err \in {"", "syntax"}

C11_SyntaxErrorCountsAsZero == OnlySyntaxFailures => C11_ParseFailureCountsAsZero

\* The items that exist at this point of the run: those the workers built,
\* the one the collector holds, and those in items, handed and Funds.
LiveItems ==
    {worker[i].item : i \in {j \in WorkerIds :
                               worker[j].pc \in {"send", "deferred", "done"}}}
      \cup (IF cpc = "append" THEN {cfund} ELSE {})
      \cup Range(items) \cup Range(handed) \cup Range(result.Funds)

\* The item worker i builds from what its GetFund call returned: the quote
\* of its identifier, or the zero Fund of an answer without one, with the
\* weight of request i.
BuiltItem(i) ==
    IF worker[i].status = "non2xx"
    THEN FundItem(NoFund, fundIds[i].Weight)
    ELSE ExpectedItem(i)

\* C16: every item carries the weight of the request whose identifier was
\* fetched for it: a worker's item is the quote of its own request with the
\* weight of its own request, and every item held by the collector, in
\* items or in the FundResult is such an item of some request.
C16_WeightOfOwnRequest ==
    /\ \A i \in WorkerIds :
          worker[i].pc \in {"send", "deferred", "done"}
             => worker[i].item = BuiltItem(i)
    /\ \A x \in LiveItems : \E i \in WorkerIds : x = BuiltItem(i)

\* Two requests with different identifiers, quotes and weights have gone
\* through the pipeline.
C16_Witness ==
    /\ mpc = "returned"
    /\ NoFetchFailed
    /\ K = 2
    /\ fundIds[1].Id # fundIds[2].Id
    /\ fundIds[1].Weight # fundIds[2].Weight
    /\ quote[fundIds[1].Id] # quote[fundIds[2].Id]
    /\ Len(result.Funds) = 2

\* The items the collector has received so far.
Received == Len(items) + (IF cpc = "append" THEN 1 ELSE 0)

C18_FundsIsPermutation ==
    mpc = "returned"
        => /\ Len(result.Funds) = Len(handed)
           /\ BagOfSeq(result.Funds) = BagOfSeq(handed)

\* Three different items handed in, two of them tied in weight, and the sort
\* moved them.
C18_Witness ==
    /\ mpc = "returned"
    /\ Len(handed) = 3
    /\ Cardinality(Range(handed)) = 3
    /\ handed[1].Weight = handed[2].Weight
    /\ handed[3].Weight > handed[1].Weight
    /\ result.Funds # handed

C13_FetchFailureIsFatal == mpc = "returned" => NoFetchFailed

\* C13, the part the code keeps: after log.Fatal on a JSON-decode error no
\* goroutine takes another step, so no FundResult is returned.
C13_DecodeErrorIsFatal == [][proc = "fatal" => UNCHANGED vars]_vars



\* The lines of a file that are not empty, in file order.
RECURSIVE NonBlank(_)
NonBlank(split) ==
    IF split = <<>> THEN <<>>
    ELSE IF Head(split) = <<>> THEN NonBlank(Tail(split))
    ELSE <<Head(split)>> \o NonBlank(Tail(split))

\* Every line of the file that is not empty is an identifier,weight line.
IdWeightLines(content) ==
    \A v \in Range(NonBlank(Split(content, "\n"))) : Len(Split(v, ",")) = 2

\* The request an identifier,weight line stands for: a weight that is not a
\* number counts as 0.
ExpectedRequest(v) ==
    LET i == Split(v, ",")
    IN  FundId(i[1], IF AllDigits(i[2]) THEN Finite(ParseDigits(i[2], 0))
                     ELSE Finite(0))

ExpectedRequests(content) ==
    LET ls == NonBlank(Split(content, "\n"))
    IN  [k \in 1 .. Len(ls) |-> ExpectedRequest(ls[k])]

\* C15: LoadFundIds, in main.go and in src/Fund.go, on a file of
\* identifier,weight lines returns one request per non-empty line in file
\* order, with weight 0 for a weight that is not a number and the parsed
\* weight otherwise; empty lines give no request and an empty or absent file
\* gives the empty list, without a failure.
C15_LoadFundIds ==
    (spc \in {"loaded", "seqLoaded"} /\ IdWeightLines(file))
        => loaded = Loaded(ExpectedRequests(file))

\* C15, the part the code keeps: the statement holds of LoadFundIds of
\* main.go.
C15_MainLoadFundIds ==
    (spc = "loaded" /\ IdWeightLines(file))
        => loaded = Loaded(ExpectedRequests(file))

\* LoadFundIds of main.go has read a file with a malformed weight between an
\* empty line and a valid line.
C15_MainWitness ==
    /\ spc = "loaded"
    /\ file = JoinLines(<<<<"b", ",", "x">>, <<>>, <<"a", ",", "1">>>>)
    /\ loaded = Loaded(<<FundId(<<"b">>, Finite(0)), FundId(<<"a">>, Finite(1))>>)


\* C12: in server mode a failed fetch or decode of one request does not
\* terminate the server process: the process is running in every state, so
\* the server can answer that request and take the next.
C12_ServerSurvivesFailure == spc # "call" => proc = "running"

\* C14: the request list of a cycle is the decoded body if and only if
\* LoadFundIds returned an empty list: with a request in the file the body
\* is not read and the file's list is fetched, with none the body's list is.
C14_BodyIffConfigEmpty ==
    spc = "fetching" =>
        /\ bodyRead <=> loaded.ids = <<>>
        /\ loaded.ids = <<>> => fundIds = body
        /\ loaded.ids # <<>> =>
               fundIds = [k \in 1 .. Len(loaded.ids) |-> Request(loaded.ids[k])]

\* The file is empty, the body holds a request, and that request has been
\* fetched and answered.
C14_Witness ==
    /\ spc = "idle"
    /\ served = 1
    /\ loaded = Loaded(<<>>)
    /\ bodyRead
    /\ body = <<FundId("b", 2)>>
    /\ fundIds = body
    /\ response.status = "200"
    /\ Len(response.result.Funds) = 1
    /\ response.result.Funds[1].FCODE = "b"

\* The file and the body both hold a request: the file's has been fetched
\* and the body has not been read.
C14_WitnessConfig ==
    /\ spc = "fetching"
    /\ mpc = "returned"
    /\ loaded.ids # <<>>
    /\ body # <<>>
    /\ ~bodyRead
    /\ Len(result.Funds) = 1
    /\ result.Funds[1].FCODE = "a"

============================================================================
